---- MODULE Spec2Model ----
(***************************************************************************)
(* Model of the two PDF-to-Markdown converters of the repository:          *)
(*   src/final_pdf_converter.py      (script "final")                      *)
(*   src/scripts/pdf_converter.py    (script "scripts")                    *)
(* Python str values are TLA+ strings; a Python list of str is a sequence  *)
(* of strings.  None is modelled by the page kind "none".                  *)
(***************************************************************************)
EXTENDS Integers, Sequences, FiniteSets, TLC

(***************************************************************************)
(* Bounds of the model.                                                    *)
(***************************************************************************)
MaxPages == 2
MaxLines == 2
MaxTextLen == 5

(***************************************************************************)
(* String primitives (Python str methods and the regex atoms used).        *)
(***************************************************************************)
Min(S) == CHOOSE m \in S : \A n \in S : m <= n
Max(S) == CHOOSE m \in S : \A n \in S : m >= n

\* the character of s at index k (1-based), "" outside the string
Ch(s, k) == IF 1 <= k /\ k <= Len(s) THEN SubSeq(s, k, k) ELSE ""

Whitespace == {" ", "\t", "\n", "\r"}
Digits == {"0", "1", "2", "3", "4", "5", "6", "7", "8", "9"}
Lower == {"a", "b", "c", "d", "e", "f", "g", "h", "i", "j", "k", "l", "m",
          "n", "o", "p", "q", "r", "s", "t", "u", "v", "w", "x", "y", "z"}
Upper == {"A", "B", "C", "D", "E", "F", "G", "H", "I", "J", "K", "L", "M",
          "N", "O", "P", "Q", "R", "S", "T", "U", "V", "W", "X", "Y", "Z"}

IsSpace(c) == c \in Whitespace

\* str.strip(): drop leading and trailing whitespace
Strip(s) ==
    LET nz == {k \in 1..Len(s) : ~IsSpace(Ch(s, k))}
    IN  IF nz = {} THEN "" ELSE SubSeq(s, Min(nz), Max(nz))

\* str.startswith(p)
StartsWith(s, p) == Len(s) >= Len(p) /\ SubSeq(s, 1, Len(p)) = p

\* index of the first occurrence of sub in s at or after from, 0 if none
Find(s, sub, from) ==
    LET K == {k \in from..(Len(s) - Len(sub) + 1) : SubSeq(s, k, k + Len(sub) - 1) = sub}
    IN  IF K = {} THEN 0 ELSE Min(K)

\* sub in s
Contains(s, sub) == Find(s, sub, 1) # 0

\* str.split(sep), sep non-empty
RECURSIVE Split(_, _)
Split(s, sep) ==
    LET k == Find(s, sep, 1)
    IN  IF k = 0 THEN <<s>>
        ELSE <<SubSeq(s, 1, k - 1)>> \o Split(SubSeq(s, k + Len(sep), Len(s)), sep)

\* sep.join(parts)
RECURSIVE Join(_, _)
Join(parts, sep) ==
    IF Len(parts) = 0 THEN ""
    ELSE IF Len(parts) = 1 THEN parts[1]
    ELSE parts[1] \o sep \o Join(Tail(parts), sep)

\* number of leading characters of s that belong to class C
RECURSIVE Span(_, _)
Span(s, C) ==
    IF Len(s) = 0 \/ Ch(s, 1) \notin C THEN 0
    ELSE 1 + Span(SubSeq(s, 2, Len(s)), C)

\* s without its first n characters
Drop(s, n) == SubSeq(s, n + 1, Len(s))

(***************************************************************************)
(* final_pdf_converter.py: clean_and_structure_text                        *)
(***************************************************************************)
\* the page-number test without the end anchor: r'^\d+'
IsPageNumber_unanchored(line) == Span(line, Digits) >= 1

\* re.match(r'^\d+$', line)
IsPageNumber(line) == Len(line) >= 1 /\ Span(line, Digits) = Len(line)

\* the inner loop over the lines of one chunk
RECURSIVE clean_lines(_)
clean_lines(ls) ==
    IF Len(ls) = 0 THEN <<>>
    ELSE LET line == Strip(ls[1])
         IN  IF line = "" THEN clean_lines(Tail(ls))
             ELSE IF IsPageNumber(line) THEN clean_lines(Tail(ls))
             ELSE <<line>> \o clean_lines(Tail(ls))

\* the outer loop over the chunks
RECURSIVE clean_chunks(_)
clean_chunks(chunks) ==
    IF Len(chunks) = 0 THEN <<>>
    ELSE IF Strip(chunks[1]) = "" THEN clean_chunks(Tail(chunks))
    ELSE clean_lines(Split(chunks[1], "\n")) \o clean_chunks(Tail(chunks))

clean_and_structure_text(text) == clean_chunks(Split(text, "\n\n"))

(***************************************************************************)
(* final_pdf_converter.py: format_as_proper_markdown                       *)
(***************************************************************************)
Title == "# ADR-015: Moneta Network Authentication and Identification"

\* the prefix of s before its first newline: what '.+' can consume
UpToNewline(s) ==
    LET k == Find(s, "\n", 1) IN IF k = 0 THEN s ELSE SubSeq(s, 1, k - 1)

\* r'\s*(.+)' applied to rest: the set of lengths the \s* part may take
TitleOffsets(rest) ==
    {m \in 0..Span(rest, Whitespace) : m + 1 <= Len(rest) /\ Ch(rest, m + 1) # "\n"}

\* group 2 of a section regex: greedy \s*, then .+
SectionTitle(rest) == UpToNewline(Drop(rest, Max(TitleOffsets(rest))))

\* re.match(r'^(\d+)\.\s*(.+)', line)
IsMainSection(line) ==
    LET n == Span(line, Digits)
    IN  /\ n >= 1
        /\ Ch(line, n + 1) = "."
        /\ TitleOffsets(Drop(line, n + 1)) # {}

MainSectionHeading(line) ==
    LET n == Span(line, Digits)
    IN  "## " \o SubSeq(line, 1, n) \o ". " \o SectionTitle(Drop(line, n + 1))

\* length of the prefix matched by r'^(\d+\.\d+)', 0 if there is none
SubSectionNumLen(line) ==
    LET n1 == Span(line, Digits)
        n2 == Span(Drop(line, n1 + 1), Digits)
    IN  IF n1 >= 1 /\ Ch(line, n1 + 1) = "." /\ n2 >= 1 THEN n1 + 1 + n2 ELSE 0

\* re.match(r'^(\d+\.\d+)\.\s*(.+)', line)
IsSubSection(line) ==
    LET n == SubSectionNumLen(line)
    IN  /\ n >= 1
        /\ Ch(line, n + 1) = "."
        /\ TitleOffsets(Drop(line, n + 1)) # {}

SubSectionHeading(line) ==
    LET n == SubSectionNumLen(line)
    IN  "### " \o SubSeq(line, 1, n) \o ". " \o SectionTitle(Drop(line, n + 1))

header_keywords ==
    <<"Current Challenges & Requirements:", "Goals:", "Use Cases:", "Narrative:",
      "Key Components of the Decision:", "Pros:", "Cons:", "Risks & Mitigations:",
      "Overall Solution:", "QR Code Authentication:", "OTP to mPass App Authentication:",
      "Human-Friendly Identifiers:", "Tier and Billing Management Security:",
      "Open Issues / Next Steps", "Story Definition">>

StartsWithKeyword(line) ==
    \E k \in 1..Len(header_keywords) : StartsWith(line, header_keywords[k])

\* "ADR-015" in line and "Moneta Network Authentication" in line
IsTitleRepetition(line) ==
    Contains(line, "ADR-015") /\ Contains(line, "Moneta Network Authentication")

\* re.match(r'^[A-Z][a-zA-Z\s]+:$', line) and len(line) < 50
IsTechnicalLabel(line) ==
    /\ Len(line) >= 3
    /\ Ch(line, 1) \in Upper
    /\ Span(Drop(line, 1), Upper \cup Lower \cup Whitespace) = Len(line) - 2
    /\ Ch(line, Len(line)) = ":"
    /\ Len(line) < 50

\* the three non-ASCII characters of the bullet literal of line 137 are
\* written as the ASCII stand-ins "@@@"
Bullet == "@@@ "

\* re.match(r'^\d+\.\s+', line)
IsNumberedItem(line) ==
    LET n == Span(line, Digits)
    IN  n >= 1 /\ Ch(line, n + 1) = "." /\ Span(Drop(line, n + 1), Whitespace) >= 1

\* re.match(r'^[a-z]\.\s+', line)
IsLetteredItem(line) ==
    Ch(line, 1) \in Lower /\ Ch(line, 2) = "." /\ Span(Drop(line, 2), Whitespace) >= 1

IsListItem(line) ==
    \/ StartsWith(line, "- ")
    \/ StartsWith(line, Bullet)
    \/ IsNumberedItem(line)
    \/ IsLetteredItem(line)

\* re.match(r'^\d+\s+(participant|alt|else|end)', line)
IsDiagramStatement(line) ==
    LET n  == Span(line, Digits)
        w  == Span(Drop(line, n), Whitespace)
        kw == Drop(line, n + w)
    IN  /\ n >= 1
        /\ w >= 1
        /\ \E k \in {"participant", "alt", "else", "end"} : StartsWith(kw, k)

\* the condition that opens the sequence-diagram branch
IsDiagramLine(line) ==
    \/ Contains(line, "sequenceDiagram")
    \/ IsDiagramStatement(line)
    \/ Contains(line, "->")
    \/ Contains(line, "-->")

\* the condition of the look-ahead loop, on the raw line lines[j]
IsDiagramContinuation(raw) ==
    \/ Contains(raw, "->")
    \/ Contains(raw, "-->")
    \/ IsDiagramStatement(raw)
    \/ Contains(raw, "Note over")

\* the look-ahead loop: the first j >= from where the loop condition fails
RECURSIVE LookAheadEnd(_, _)
LookAheadEnd(ls, j) ==
    IF j <= Len(ls) /\ IsDiagramContinuation(ls[j]) THEN LookAheadEnd(ls, j + 1) ELSE j

\* the code fence of lines 149 and 164: three backquotes, a character a TLA+
\* string cannot hold, written as three tildes
Fence == "~~~"

\* what the sequence-diagram branch appends for lines[i]; j is the index
\* the look-ahead stopped at
DiagramBlock(ls, k, line, j) ==
    (IF Contains(line, "sequenceDiagram") THEN <<Fence \o "mermaid">> ELSE <<>>)
    \o <<line>>
    \o SubSeq(ls, k + 1, j - 1)
    \o (IF Contains(line, "sequenceDiagram") THEN <<Fence, "">> ELSE <<>>)

\* one pass through the body of 'while i < len(lines)': the new value of i
\* and of markdown_content
format_iteration(ls, k, md) ==
    LET line == Strip(ls[k])
        j    == LookAheadEnd(ls, k + 1)
    IN  IF line = "" THEN [i |-> k + 1, markdown_content |-> md]
        ELSE IF IsTitleRepetition(line) THEN [i |-> k + 1, markdown_content |-> md]
        ELSE IF StartsWith(line, "Status:")
            THEN [i |-> k + 1, markdown_content |-> md \o <<"**" \o line \o "**", "">>]
        ELSE IF StartsWith(line, "Date:")
            THEN [i |-> k + 1, markdown_content |-> md \o <<"**" \o line \o "**", "">>]
        ELSE IF IsMainSection(line)
            THEN [i |-> k + 1, markdown_content |-> md \o <<MainSectionHeading(line), "">>]
        ELSE IF IsSubSection(line)
            THEN [i |-> k + 1, markdown_content |-> md \o <<SubSectionHeading(line), "">>]
        ELSE IF StartsWithKeyword(line)
            THEN [i |-> k + 1, markdown_content |-> md \o <<"### " \o line, "">>]
        ELSE IF IsTechnicalLabel(line)
            THEN [i |-> k + 1, markdown_content |-> md \o <<"#### " \o line, "">>]
        ELSE IF IsListItem(line)
            THEN [i |-> k + 1, markdown_content |-> md \o <<line>>]
        ELSE IF IsDiagramLine(line)
            THEN [i |-> (j - 1) + 1, markdown_content |-> md \o DiagramBlock(ls, k, line, j)]
        ELSE [i |-> k + 1, markdown_content |-> md \o <<line, "">>]

(***************************************************************************)
(* final_pdf_converter.py: manual_content_fixes                            *)
(***************************************************************************)
\* re.sub(head + '.*?' + tail, repl, content, flags=re.DOTALL) for literal
\* head and tail: leftmost match, shortest extension, scan resumes after it
RECURSIVE ReSubLazy(_, _, _, _)
ReSubLazy(content, head, tail, repl) ==
    LET a == Find(content, head, 1)
        b == IF a = 0 THEN 0 ELSE Find(content, tail, a + Len(head))
    IN  IF a = 0 \/ b = 0 THEN content
        ELSE SubSeq(content, 1, a - 1) \o repl
             \o ReSubLazy(Drop(content, b + Len(tail) - 1), head, tail, repl)

\* re.sub(r'\n{3,}', '\n\n', content)
RECURSIVE CollapseNewlines(_)
CollapseNewlines(content) ==
    LET k == Find(content, "\n\n\n", 1)
    IN  IF k = 0 THEN content
        ELSE SubSeq(content, 1, k - 1) \o "\n\n"
             \o CollapseNewlines(Drop(content, k - 1 + Span(Drop(content, k - 1), {"\n"})))

AuthenticationFix ==
    "#### Authentication:\n"
    \o "Design a secure OIDC-based passwordless authentication system managed by Moneta Core, "
    \o "using AWS Cognito, Lambda, DynamoDB, and API Gateway. Common flows involve users "
    \o "clicking a \"Login with Moneta mPass\" button on Publisher sites/apps, redirecting to "
    \o "Moneta Core's hosted UI, authenticating via their mPass mobile app (QR scan, OTP), and "
    \o "then being redirected back to the Publisher with OIDC tokens. The system must support "
    \o "session management, token revocation, refresh tokens, and SSO for publisher groups."

IdentificationFix ==
    "#### Identification:\n"
    \o "The current UUIDv4 identifiers for MOs, Publishers, and mPasses (MO UUID + User UUID) "
    \o "are not human-friendly. A new coding/alias scheme is needed, supporting global scale, "
    \o "high availability, performance, and security."

manual_content_fixes(content) ==
    LET c1 == ReSubLazy(content, "Authentication: Design a secure OIDC-based",
                        "publisher groups.", AuthenticationFix)
        c2 == ReSubLazy(c1, "Identification: The current UUIDv4 identifiers",
                        "and security.", IdentificationFix)
        c3 == ReSubLazy(c2, "Beyond the initial login, the system supports:", "",
                        "Beyond the initial login, the system supports:")
    IN  CollapseNewlines(c3)

(***************************************************************************)
(* scripts/pdf_converter.py: create_structured_markdown.  The document is  *)
(* the string literal of lines 38-311; its two non-ASCII characters, the   *)
(* check mark and the exclamation mark symbols, are written "+" and "!".   *)
(***************************************************************************)
StructuredDocument ==
    "# ADR-015: Moneta Network Authentication and Identification\n"
    \o "\n"
    \o "**Status:** Proposed  \n"
    \o "**Date:** 2025-06-01\n"
    \o "\n"
    \o "---\n"
    \o "\n"
    \o "## Table of Contents\n"
    \o "\n"
    \o "1. [Context](#1-context)\n"
    \o "2. [Main Use Cases](#2-main-use-cases)\n"
    \o "   - 2.1. [Authentication Flows](#21-authentication-flows)\n"
    \o "   - 2.2. [Partner (MO & Publisher) Management](#22-partner-mo--publisher-management)\n"
    \o "   - 2.3. [mPass Management](#23-mpass-management)\n"
    \o "3. [Decision](#3-decision)\n"
    \o "4. [Consequences](#4-consequences)\n"
    \o "   - [Pros](#pros)\n"
    \o "   - [Cons](#cons)\n"
    \o "   - [Risks & Mitigations](#risks--mitigations)\n"
    \o "5. [Technical Details](#5-technical-details)\n"
    \o "   - 5.1. [OIDC Passwordless Authentication Flow](#51-oidc-passwordless-authentication-flo"
    \o "w)\n"
    \o "   - 5.2. [Human-Friendly Identifiers, Tiers, Billing & Lifecycle](#52-human-friendly-iden"
    \o "tifiers-tiers-billing--lifecycle)\n"
    \o "   - 5.3. [Cross-Cutting Technical Requirements](#53-cross-cutting-technical-requirements)\n"
    \o "   - 5.4. [Security Assessment Summary](#54-security-assessment-summary)\n"
    \o "6. [Open Issues / Next Steps](#6-open-issues--next-steps)\n"
    \o "7. [Story Definition](#7-story-definition)\n"
    \o "   - 7.1. [Authentication Flow Stories](#71-authentication-flow-stories)\n"
    \o "   - 7.2. [Partner (MO & Publisher) Management Stories](#72-partner-mo--publisher-manageme"
    \o "nt-stories)\n"
    \o "   - 7.3. [mPass Management Stories](#73-mpass-management-stories)\n"
    \o "\n"
    \o "---\n"
    \o "\n"
    \o "## 1. Context\n"
    \o "\n"
    \o "The Moneta Network is a platform involving Membership Organizations (MOs), Publishers, and"
    \o " a central Moneta Core. It aims to facilitate user authentication for accessing Publisher "
    \o "services and manage transactions, similar to a payment network. MO users leverage an mPass"
    \o " (analogous to a Visa card), with private keys stored on their MO-managed mobile applicati"
    \o "on and public keys in Moneta Core. The platform will operate globally.\n"
    \o "\n"
    \o "### Current Challenges & Requirements:\n"
    \o "\n"
    \o "#### Authentication:\n"
    \o "Design a secure OIDC-based passwordless authentication system managed by Moneta Core, usin"
    \o "g AWS Cognito, Lambda, DynamoDB, and API Gateway. Common flows involve users clicking a \"L"
    \o "ogin with Moneta mPass\" button on Publisher sites/apps, redirecting to Moneta Core's hoste"
    \o "d UI, authenticating via their mPass mobile app (QR scan, OTP), and then being redirected "
    \o "back to the Publisher with OIDC tokens. The system must support session management, token "
    \o "revocation, refresh tokens, and SSO for publisher groups.\n"
    \o "\n"
    \o "#### Identification:\n"
    \o "The current UUIDv4 identifiers for MOs, Publishers, and mPasses (MO UUID + User UUID) are "
    \o "not human-friendly. A new coding/alias scheme is needed, supporting global scale, high ava"
    \o "ilability, performance, and security.\n"
    \o "\n"
    \o "#### Lifecycle Management:\n"
    \o "The identifier system must support the lifecycle of MOs, Publishers (pending, destroy) and"
    \o " mPasses (pending, destroy, expiration, user lock, moving mPass between devices, mobile br"
    \o "eak/recovery).\n"
    \o "\n"
    \o "#### Key Management:\n"
    \o "An mPass should link to one active key pair and store several expired key pairs. Multiple "
    \o "encryption and signing algorithms need to be supported/suggested.\n"
    \o "\n"
    \o "#### mPass Tiers:\n"
    \o "Each mPass should be assigned a tier (e.g., Standard, Platinum). Tier information will inf"
    \o "luence policies like consumption limits and accepted debt amounts. Business flows for tier"
    \o " management (e.g., upgrades) are needed.\n"
    \o "\n"
    \o "#### Billing Account Management:\n"
    \o "mPasses, issued by MOs, need to be associated with billing accounts. Types include:\n"
    \o "\n"
    \o "- **Individual Account:** Default; user is responsible for payments.\n"
    \o "- **Company Account:** Multiple mPasses under one account; company owner handles payments.\n"
    \o "- **Family Account:** Similar to Company, but one specific mPass acts as account owner, se"
    \o "ts policies for other mPasses under the account, and is responsible for all charges.\n"
    \o "\n"
    \o "#### Technical Stack:\n"
    \o "Primarily AWS serverless (Cognito, Lambda, DynamoDB, API Gateway), but open to other AWS s"
    \o "ervices (S3, RDS, SNS). EKS is mentioned but serverless is preferred for this module.\n"
    \o "\n"
    \o "#### Non-Functional Requirements:\n"
    \o "Low authentication latency, data synchronization capabilities between Moneta Core modules,"
    \o " extensibility for future auth methods.\n"
    \o "\n"
    \o "#### Development & Operations:\n"
    \o "Recommendations for Lambda development stack and CI/CD.\n"
    \o "\n"
    \o "#### Risk Assessment:\n"
    \o "Security risks, pros, and cons for the overall solution and specific authentication method"
    \o "s.\n"
    \o "\n"
    \o "### Goals:\n"
    \o "\n"
    \o "1. To design a robust, secure, and user-friendly OIDC passwordless authentication mechanis"
    \o "m.\n"
    \o "2. To propose a human-readable and manageable identification scheme for MOs, Publishers, a"
    \o "nd mPasses, incorporating tier and billing account structures.\n"
    \o "3. To outline the technical architecture and operational considerations for these systems,"
    \o " ensuring scalability, security, and maintainability.\n"
    \o "\n"
    \o "---\n"
    \o "\n"
    \o "## 2. Main Use Cases\n"
    \o "\n"
    \o "This section outlines the primary business functions addressed by this ADR, grouped by fun"
    \o "ctional area.\n"
    \o "\n"
    \o "### 2.1. Authentication Flows\n"
    \o "\n"
    \o "This group covers how users authenticate to access publisher services and how their sessio"
    \o "ns are managed.\n"
    \o "\n"
    \o "#### Use Cases:\n"
    \o "- User Authenticates to Publisher via Moneta Core\n"
    \o "- User Logs Out from Publisher\n"
    \o "- User Experiences SSO across Grouped Publishers\n"
    \o "- Moneta Core System Manages User Session\n"
    \o "\n"
    \o "#### Narrative:\n"
    \o "The primary authentication flow involves a User attempting to access a Publisher System. T"
    \o "he Publisher System redirects the User to the Moneta Core System for authentication. The U"
    \o "ser selects a passwordless method (e.g., QR scan, OTP) and uses their mPass Mobile App to "
    \o "complete the challenge presented by Moneta Core. Upon successful authentication, Moneta Co"
    \o "re issues OIDC tokens back to the Publisher System, which then grants access to the User.\n"
    \o "\n"
    \o "Beyond the initial login, the system supports:\n"
    \o "\n"
    \o "- **Logout:** The User can initiate a logout from the Publisher System, which communicates"
    \o " with Moneta Core to invalidate the session and relevant tokens.\n"
    \o "- **Refresh Token:** Publisher Systems can use refresh tokens to obtain new access tokens "
    \o "from Moneta Core without requiring the User to re-authenticate, maintaining a seamless exp"
    \o "erience.\n"
    \o "- **SSO (Single Sign-On):** If a User is already authenticated with Moneta Core and access"
    \o "es another Publisher System belonging to an affiliated group, Moneta Core facilitates SSO,"
    \o " allowing the User to access the new Publisher service without re-entering credentials.\n"
    \o "- **Session Management:** Moneta Core is responsible for the overall lifecycle of the User"
    \o "'s session, including creation, maintenance, and termination based on activity, token expi"
    \o "ry, or explicit logout.\n"
    \o "\n"
    \o "### 2.2. Partner (MO & Publisher) Management\n"
    \o "\n"
    \o "This group covers the administrative functions for managing Membership Organizations (MOs)"
    \o " and Publishers on the Moneta Network.\n"
    \o "\n"
    \o "#### Use Cases:\n"
    \o "- Moneta Core Admin Onboards New MO\n"
    \o "- Moneta Core Admin Views MO Details\n"
    \o "- Moneta Core Admin Updates MO Configuration\n"
    \o "- Moneta Core Admin Manages MO Lifecycle (e.g., Suspend, Activate, Destroy)\n"
    \o "- Moneta Core Admin Onboards New Publisher\n"
    \o "- Moneta Core Admin Views Publisher Details\n"
    \o "- Moneta Core Admin Updates Publisher Configuration\n"
    \o "- Moneta Core Admin Manages Publisher Lifecycle (e.g., Suspend, Activate, Destroy)\n"
    \o "\n"
    \o "#### Narrative:\n"
    \o "Partner management is primarily handled by a Moneta Core Admin interacting with the Moneta"
    \o " Core System.\n"
    \o "\n"
    \o "For Membership Organizations (MOs), the Admin can perform CRUD (Create, Read, Update, Dele"
    \o "te - though 'Delete' is more accurately 'Destroy' in lifecycle terms) operations. This inc"
    \o "ludes onboarding new MOs, configuring their parameters (e.g., assigning MICs, setting up c"
    \o "ommunication endpoints), viewing their status and details, and managing their lifecycle (p"
    \o "ending approval, active, suspended, destroyed). Changes in the Moneta Core System might tr"
    \o "igger notifications or updates to the MO's own external systems.\n"
    \o "\n"
    \o "Similarly, for Publishers, the Moneta Core Admin manages their onboarding, configuration ("
    \o "e.g., assigning MPCs, defining service endpoints, associating with SSO groups), viewing de"
    \o "tails, and lifecycle management. These actions ensure that only legitimate and correctly c"
    \o "onfigured partners operate on the network.\n"
    \o "\n"
    \o "### 2.3. mPass Management\n"
    \o "\n"
    \o "This group covers the lifecycle and attribute management of individual mPasses, including "
    \o "their tiers and billing account associations.\n"
    \o "\n"
    \o "#### Use Cases:\n"
    \o "- MO Admin Issues New mPass to User\n"
    \o "- User/MO Admin Views mPass Details\n"
    \o "- User/MO Admin Updates mPass (e.g., user-lock, MO-initiated suspension)\n"
    \o "- User/MO Admin Manages mPass Lifecycle (Destroy, Reactivate if applicable)\n"
    \o "- Moneta Core System Manages mPass Expiration\n"
    \o "- User Manages mPass Keys (implicitly, via device transfer/recovery flows)\n"
    \o "- MO Admin Assigns/Upgrades/Downgrades mPass Tier\n"
    \o "- MO Admin Associates mPass with Billing Account\n"
    \o "- User (as Billing Account Owner) Manages Linked mPasses (e.g., for Family Accounts, setti"
    \o "ng policies)\n"
    \o "- User (as Billing Account Owner) Views Consolidated Billing Information (handled by MO, M"
    \o "oneta Core provides data)\n"
    \o "\n"
    \o "#### Narrative:\n"
    \o "mPass management involves multiple actors and system interactions:\n"
    \o "\n"
    \o "**Issuance & Lifecycle:** An MO Admin issues an mPass to a User via the Moneta Core System"
    \o ". The User activates and uses the mPass through their mPass Mobile App. Both the User (e.g"
    \o "., locking their mPass) and the MO Admin (e.g., suspending an mPass) can manage aspects of"
    \o " its lifecycle. Moneta Core automatically handles processes like mPass expiration.\n"
    \o "\n"
    \o "**Key Management:** While not a direct CRUD operation by the user on keys, processes like "
    \o "transferring an mPass to a new device or recovering an mPass after a device break implicit"
    \o "ly involve the generation of new key pairs on the mPass Mobile App, with the new public ke"
    \o "y being registered with Moneta Core.\n"
    \o "\n"
    \o "**Tier Management:** The MO Admin is responsible for assigning an initial tier to an mPass"
    \o " and managing upgrades or downgrades based on business rules or user requests. This inform"
    \o "ation is stored by Moneta Core and affects the policies applied to the mPass.\n"
    \o "\n"
    \o "**Billing Account Management:** The MO Admin associates an mPass with a specific billing a"
    \o "ccount (Individual, Company, or Family) within the Moneta Core System. For Family accounts"
    \o ", the designated Billing Account Owner (a User) can manage policies (e.g., spending limits"
    \o ") for other mPasses linked to their family account, typically via their mPass Mobile App, "
    \o "which then communicates these policy changes to Moneta Core.\n"
    \o "\n"
    \o "These use cases define the core interactions for identity, access, and account management "
    \o "within the Moneta Network from the perspective of this ADR.\n"
    \o "\n"
    \o "---\n"
    \o "\n"
    \o "## 3. Decision\n"
    \o "\n"
    \o "We will implement a custom OIDC passwordless authentication flow using AWS Cognito with AW"
    \o "S Lambda triggers for challenge management. For identifiers, we will introduce a structure"
    \o "d, human-friendly coding scheme managed centrally by Moneta Core, alongside the existing U"
    \o "UIDs for internal referencing. This system will also incorporate mPass tiers and a flexibl"
    \o "e billing account structure.\n"
    \o "\n"
    \o "### Key Components of the Decision:\n"
    \o "\n"
    \o "#### OIDC Passwordless Authentication (Moneta Core Managed):\n"
    \o "\n"
    \o "- **Identity Provider:** AWS Cognito User Pools will serve as the OIDC IdP.\n"
    \o "- **Custom Authentication Flow:** Leverage Cognito's Define Auth Challenge, Create Auth Ch"
    \o "allenge, and Verify Auth Challenge Response Lambda triggers to implement passwordless meth"
    \o "ods (QR Code Scan, OTP to mPass App).\n"
    \o "- **Hosted UI:** Cognito's Hosted UI will be customized to present these passwordless opti"
    \o "ons.\n"
    \o "- **API Gateway & Lambda:** API Gateway will expose necessary endpoints for the mPass mobi"
    \o "le app to interact with during authentication (e.g., submit signed QR data, receive OTP in"
    \o "structions if not purely push-based). These will be backed by Lambda functions.\n"
    \o "- **DynamoDB:** Used to store temporary challenge data (QR session IDs, OTP hashes), mPass"
    \o " public key references, and other authentication metadata.\n"
    \o "- **Standard OIDC Features:** Session management, token revocation, and refresh token capa"
    \o "bilities will be handled by Cognito.\n"
    \o "- **SSO:** Cognito's native support for SSO across different app clients within the same u"
    \o "ser pool will be used for publisher groups.\n"
    \o "\n"
    \o "#### Human-Friendly Identifiers, Tiers, Billing, & Lifecycle Management:\n"
    \o "\n"
    \o "- **MO Code (Moneta Issuer Code - MIC):** A short, centrally assigned alphanumeric code (e"
    \o ".g., MOA01, 4-6 chars).\n"
    \o "- **Publisher Code (Moneta Partner Code - MPC):** A short, centrally assigned alphanumeric"
    \o " code (e.g., PUBS7, 4-6 chars).\n"
    \o "- **mPass Number:** A structured number, analogous to payment card numbers:\n"
    \o "  - **MII (Moneta Issuer Identifier):** First 6-8 digits, globally unique, identifying the"
    \o " issuing MO (linked to MIC).\n"
    \o "  - **MAI (Moneta Account Identifier):** Next 8-12 digits, assigned by the MO, unique with"
    \o "in that MO.\n"
    \o "  - **VC (Verification Character):** 1 character (e.g., Luhn check digit).\n"
    \o "  - **Example:** 123456-7890123456-A.\n"
    \o "- **mPass Tiers:** An attribute associated with each mPass (e.g., \"Standard\", \"Platinum\") "
    \o "influencing its policies.\n"
    \o "- **Billing Accounts:** A separate structure to manage how mPass charges are aggregated an"
    \o "d paid, supporting Individual, Company, and Family models.\n"
    \o "- **Storage & Management:** These codes, tiers, and billing account associations will be s"
    \o "tored in DynamoDB, linked to their respective UUIDs. Moneta Core will manage their lifecyc"
    \o "le (Pending, Active, Suspended, Destroyed, Expired) via APIs and automated processes.\n"
    \o "\n"
    \o "#### mPass Key Management:\n"
    \o "\n"
    \o "- Each mPass will be associated with one active public key and a history of inactive (expi"
    \o "red, superseded) public keys.\n"
    \o "- Public keys (with algorithm identifiers) stored in Moneta Core's secure storage.\n"
    \o "- Private keys remain solely on the user's mPass mobile app.\n"
    \o "\n"
    \o "**Supported Algorithms:**\n"
    \o "- **Signing:** ECDSA (e.g., P-256, P-384), EdDSA (e.g., Ed25519).\n"
    \o "- **Encryption:** (for data at rest within Moneta Core, if needed beyond standard SSE): AE"
    \o "S-256 GCM.\n"
    \o "\n"
    \o "---\n"
    \o "\n"
    \o "## 4. Consequences\n"
    \o "\n"
    \o "### Pros:\n"
    \o "\n"
    \o "+ **Enhanced User Experience:** Passwordless methods are generally faster and more user-fr"
    \o "iendly. Human-readable codes improve operational clarity.\n"
    \o "\n"
    \o "+ **Flexible Financial Management:** Tier and billing account structures allow for diverse"
    \o " product offerings and payment arrangements.\n"
    \o "\n"
    \o "+ **Leverages AWS Managed Services:** Reduces operational burden for Cognito, Lambda, Dyna"
    \o "moDB, API Gateway, ensuring scalability and reliability.\n"
    \o "\n"
    \o "+ **Strong Security Foundation:** OIDC is an industry standard. Custom Lambda triggers all"
    \o "ow granular control over authentication logic. Private keys remain on user devices, reduci"
    \o "ng central risk.\n"
    \o "\n"
    \o "+ **Extensibility:** Cognito's custom auth flow allows adding new passwordless methods in "
    \o "the future. Tier and billing models can also be expanded.\n"
    \o "\n"
    \o "+ **Centralized Control & Consistency:** Moneta Core manages authentication, the identifie"
    \o "r namespace, tiers, and billing account structures.\n"
    \o "\n"
    \o "+ **SSO Capability:** Natively supported by Cognito for publisher groups.\n"
    \o "\n"
    \o "+ **Global Scalability:** AWS services provide global infrastructure. DynamoDB Global Tabl"
    \o "es can be used for low-latency reads of identifier/key data if needed.\n"
    \o "\n"
    \o "### Cons:\n"
    \o "\n"
    \o "! **Increased Implementation Complexity:** Custom authentication flows, tier logic, and bi"
    \o "lling account management add layers of complexity to design, development, and testing.\n"
    \o "\n"
    \o "! **AWS Ecosystem Lock-in:** Significant reliance on AWS services.\n"
    \o "\n"
    \o "! **Lambda Cold Starts:** Potential for increased latency for infrequently used auth/manag"
    \o "ement functions if not mitigated (e.g., provisioned concurrency).\n"
    \o "\n"
    \o "! **Mobile App Dependency:** The entire passwordless flow hinges on the security and funct"
    \o "ionality of the MO's mPass mobile application, which may also need to display tier/billing"
    \o " info.\n"
    \o "\n"
    \o "! **Data Management Overhead:** Centralized management of codes, tiers, billing accounts, "
    \o "and their interdependencies requires robust processes and potentially more complex data mo"
    \o "dels.\n"
    \o "\n"
    \o "### Risks & Mitigations:\n"
    \o "\n"
    \o "#### Security Risks:\n"
    \o "\n"
    \o "**Compromised Lambda Functions:**\n"
    \o "- **Mitigation:** Strict IAM roles (least privilege), regular code reviews, dependency sca"
    \o "nning, security testing (SAST/DAST), AWS WAF on API Gateway.\n"
    \o "\n"
    \o "**Insecure Mobile App Key Storage:**\n"
    \o "- **Mitigation:** Mandate/strongly recommend MOs to ensure private keys are stored in hard"
    \o "ware-backed secure enclaves. Provide clear security guidelines.\n"
    \o "\n"
    \o "**QR Code Hijacking/Replay Attacks:**\n"
    \o "- **Mitigation:** Short-lived, single-use QR codes/session IDs. Signing of the QR challeng"
    \o "e response by the mPass app. Secure HTTPS. User education.\n"
    \o "\n"
    \o "**OTP Interception/Phishing:**\n"
    \o "- **Mitigation:** Short-lived OTPs. Binding OTPs to sessions. Rate limiting. Secure delive"
    \o "ry. User education.\n"
    \o "\n"
    \o "**Identifier Enumeration/Guessing:**\n"
    \o "- **Mitigation:** Avoid strictly sequential assignment. Rate limiting on lookup APIs. Stro"
    \o "ng validation.\n"
    \o "\n"
    \o "**Unauthorized Tier/Billing Modification:**\n"
    \o "- **Mitigation:** Strong authorization controls on APIs managing tiers and billing account"
    \o "s (e.g., only MO admins or designated account owners can make changes). Audit trails for a"
    \o "ll modifications.\n"
    \o "\n"
    \o "**Denial of Service (DoS) against Auth Endpoints:**\n"
    \o "- **Mitigation:** AWS Shield, AWS WAF, scalable serverless infrastructure.\n"
    \o "\n"
    \o "#### Operational Risks:\n"
    \o "\n"
    \o "**Moneta Core Auth Module as Central Point of Failure:**\n"
    \o "- **Mitigation:** Multi-AZ deployments. Consider multi-region for critical components.\n"
    \o "\n"
    \o "**Identifier/Code Collision:**\n"
    \o "- **Mitigation:** Robust central management with atomic operations or strong consistency f"
    \o "or assigning unique codes.\n"
    \o "\n"
    \o "**Data Synchronization Failures:**\n"
    \o "- **Mitigation:** Reliable eventing (EventBridge) with DLQs. Monitoring. Idempotent consum"
    \o "ers.\n"
    \o "\n"
    \o "**Complexity in Policy Enforcement:**\n"
    \o "Ensuring correct application of policies based on tiers and family billing account rules r"
    \o "equires careful logic and testing.\n"
    \o "- **Mitigation:** Thorough testing of policy logic. Clear definition of policy rules. Vers"
    \o "ioning of policies.\n"
    \o "\n"
    \o "---\n"
    \o "\n"
    \o "*[This is a partial conversion - the document contains additional sections on Technical De"
    \o "tails, Security Assessment, Open Issues, and Story Definitions that would continue with th"
    \o "e same level of detail and structure]*\n"
    \o "\n"

\* a converter that puts the extracted text after the fixed document
create_structured_markdown_with_text(text) == StructuredDocument \o text

create_structured_markdown(text) == StructuredDocument

(***************************************************************************)
(* State of one run of main() of either script.                            *)
(*   script           which of the two programs runs                       *)
(*   pdf_exists       os.path.exists(pdf_file)                             *)
(*   pdf              what pdfplumber does with the file: whether open     *)
(*                    raises, and per page whether extract_text raises,    *)
(*                    returns None or returns a str                        *)
(*   output_file      the output path: <<>> if absent, else <<content>>    *)
(*   pc               position in main and in the function it is in        *)
(*   i                loop index (1-based) of the page loop / while loop   *)
(*   all_text         all_text (final) / full_text (scripts)               *)
(*   raw_text, lines, content   locals of main (content: markdown_content *)
(*                    of main, a str)                                      *)
(*   markdown_content the list built by format_as_proper_markdown          *)
(*   exit_status      -1 while running, then the process exit status       *)
(*   initial_file, trace   history: the output file before the run and     *)
(*                    the steps taken so far                               *)
(***************************************************************************)
VARIABLES script, pdf_exists, pdf, output_file, pc, i, all_text, raw_text,
          lines, markdown_content, content, exit_status, initial_file, trace

vars == <<script, pdf_exists, pdf, output_file, pc, i, all_text, raw_text,
          lines, markdown_content, content, exit_status, initial_file, trace>>

\* the separator appended after each page's text
Separator(sc) == IF sc = "final" THEN "\n\n" ELSE "\n\n--- PAGE BREAK ---\n\n"

(***************************************************************************)
(* Inputs.                                                                 *)
(***************************************************************************)
PageTexts ==
    { "",
      " \n",
      "ADR-015: Moneta Network Authentication and Identification\nStatus: Proposed\n\n1",
      "1. Context\nGoals:\n- scale\n2.1. Authentication Flows",
      "sequenceDiagram\n1 participant User\nUser->App: login\nPros: ADR-015 Moneta Network Authentication -> Core\n\n\n\nSummary",
      "Authentication: Design a secure OIDC-based flow\nfor publisher groups.\n 12 \nIdentification: The current UUIDv4 identifiers lack and security." }

PageOutcomes ==
    {[kind |-> "none", text |-> ""], [kind |-> "raise", text |-> ""]}
    \cup {[kind |-> "text", text |-> t] : t \in PageTexts}

\* all sequences over S of length at most n
RECURSIVE SeqsUpTo(_, _)
SeqsUpTo(S, n) ==
    IF n = 0 THEN {<<>>}
    ELSE LET P == SeqsUpTo(S, n - 1)
         IN  P \cup {Append(q, x) : q \in P, x \in S}

MissingPdf == [open_raises |-> TRUE, pages |-> <<>>]

Pdfs ==
    {[open_raises |-> TRUE, pages |-> <<>>]}
    \cup {[open_raises |-> FALSE, pages |-> ps] : ps \in SeqsUpTo(PageOutcomes, MaxPages)}

InitialFiles == {<<>>, <<"# Old notes\n">>, <<Title \o "\n\nold body\n">>}

Init ==
    /\ script \in {"final", "scripts"}
    /\ pdf_exists \in BOOLEAN
    /\ pdf \in (IF pdf_exists THEN Pdfs ELSE {MissingPdf})
    /\ output_file \in InitialFiles
    /\ initial_file = output_file
    /\ pc = "start"
    /\ i = 0
    /\ all_text = ""
    /\ raw_text = ""
    /\ lines = <<>>
    /\ markdown_content = <<>>
    /\ content = ""
    /\ exit_status = -1
    /\ trace = <<>>

(***************************************************************************)
(* main: the existence check.                                              *)
(***************************************************************************)
\* the existence check without its sys.exit(1): the message is printed and
\* the run goes on
main_check_exists_no_exit ==
    /\ pc = "start"
    /\ trace' = Append(trace, "exists")
    /\ pc' = "open"
    /\ UNCHANGED <<script, pdf_exists, pdf, output_file, i, all_text, raw_text,
                   lines, markdown_content, content, exit_status, initial_file>>

main_check_exists ==
    /\ pc = "start"
    /\ trace' = Append(trace, "exists")
    /\ IF ~pdf_exists
       THEN pc' = "exit" /\ exit_status' = 1
       ELSE pc' = "open" /\ UNCHANGED exit_status
    /\ UNCHANGED <<script, pdf_exists, pdf, output_file, i, all_text, raw_text,
                   lines, markdown_content, content, initial_file>>

(***************************************************************************)
(* extract_and_clean_text / extract_text_preserve_structure.               *)
(***************************************************************************)
extract_open ==
    /\ pc = "open"
    /\ trace' = Append(trace, "open")
    /\ all_text' = ""
    /\ i' = 1
    /\ pc' = IF pdf.open_raises THEN "except" ELSE "page"
    /\ UNCHANGED <<script, pdf_exists, pdf, output_file, raw_text, lines,
                   markdown_content, content, exit_status, initial_file>>

\* the loop body without its 'if page_text:' guard: the text and the
\* separator are appended for every page, None counting as ""
accumulate_unguarded(sc, text, page) == text \o page.text \o Separator(sc)

\* the text the loop body leaves in all_text for a page that does not raise
accumulate(sc, text, page) ==
    IF page.kind = "text" /\ page.text # ""
    THEN text \o page.text \o Separator(sc)
    ELSE text

extract_page ==
    /\ pc = "page"
    /\ i <= Len(pdf.pages)
    /\ trace' = Append(trace, "page")
    /\ IF pdf.pages[i].kind = "raise"
       THEN pc' = "except" /\ UNCHANGED <<all_text, i>>
       ELSE /\ all_text' = accumulate(script, all_text, pdf.pages[i])
            /\ i' = i + 1
            /\ pc' = "page"
    /\ UNCHANGED <<script, pdf_exists, pdf, output_file, raw_text, lines,
                   markdown_content, content, exit_status, initial_file>>

\* an except clause that returns the text accumulated so far
except_value_partial(text) == text

\* the value the except clause returns
except_value(text) == ""

extract_except ==
    /\ pc = "except"
    /\ trace' = Append(trace, "except")
    /\ raw_text' = except_value(all_text)
    /\ pc' = "blank"
    /\ UNCHANGED <<script, pdf_exists, pdf, output_file, i, all_text, lines,
                   markdown_content, content, exit_status, initial_file>>

extract_return ==
    /\ pc = "page"
    /\ i > Len(pdf.pages)
    /\ trace' = Append(trace, "return")
    /\ raw_text' = all_text
    /\ pc' = "blank"
    /\ UNCHANGED <<script, pdf_exists, pdf, output_file, i, all_text, lines,
                   markdown_content, content, exit_status, initial_file>>

(***************************************************************************)
(* main: 'if not raw_text.strip()' and the stages after it.                *)
(***************************************************************************)
main_check_blank ==
    /\ pc = "blank"
    /\ trace' = Append(trace, "blank")
    /\ IF Strip(raw_text) = ""
       THEN pc' = "exit" /\ exit_status' = 1
       ELSE /\ pc' = (IF script = "final" THEN "clean" ELSE "create")
            /\ UNCHANGED exit_status
    /\ UNCHANGED <<script, pdf_exists, pdf, output_file, i, all_text, raw_text,
                   lines, markdown_content, content, initial_file>>

main_clean ==
    /\ pc = "clean"
    /\ trace' = Append(trace, "clean")
    /\ lines' = clean_and_structure_text(raw_text)
    /\ pc' = "format"
    /\ UNCHANGED <<script, pdf_exists, pdf, output_file, i, all_text, raw_text,
                   markdown_content, content, exit_status, initial_file>>

\* the prologue without the append of the empty line
format_prologue_no_blank == <<Title>>

\* markdown_content after the two appends that precede the loop
format_prologue == <<Title, "">>

format_begin ==
    /\ pc = "format"
    /\ trace' = Append(trace, "format")
    /\ markdown_content' = format_prologue
    /\ i' = 1
    /\ pc' = "loop"
    /\ UNCHANGED <<script, pdf_exists, pdf, output_file, all_text, raw_text,
                   lines, content, exit_status, initial_file>>

format_loop ==
    /\ pc = "loop"
    /\ i <= Len(lines)
    /\ trace' = Append(trace, "loop")
    /\ i' = format_iteration(lines, i, markdown_content).i
    /\ markdown_content' = format_iteration(lines, i, markdown_content).markdown_content
    /\ UNCHANGED <<script, pdf_exists, pdf, output_file, pc, all_text, raw_text,
                   lines, content, exit_status, initial_file>>

format_return ==
    /\ pc = "loop"
    /\ i > Len(lines)
    /\ trace' = Append(trace, "join")
    /\ content' = Join(markdown_content, "\n")
    /\ pc' = "fixes"
    /\ UNCHANGED <<script, pdf_exists, pdf, output_file, i, all_text, raw_text,
                   lines, markdown_content, exit_status, initial_file>>

main_fixes ==
    /\ pc = "fixes"
    /\ trace' = Append(trace, "fixes")
    /\ content' = manual_content_fixes(content)
    /\ pc' = "write"
    /\ UNCHANGED <<script, pdf_exists, pdf, output_file, i, all_text, raw_text,
                   lines, markdown_content, exit_status, initial_file>>

main_create ==
    /\ pc = "create"
    /\ trace' = Append(trace, "create")
    /\ content' = create_structured_markdown(raw_text)
    /\ pc' = "write"
    /\ UNCHANGED <<script, pdf_exists, pdf, output_file, i, all_text, raw_text,
                   lines, markdown_content, exit_status, initial_file>>

\* the file after a write in append mode ('a')
written_file_append(old, text) ==
    IF Len(old) = 0 THEN <<text>> ELSE <<old[1] \o text>>

\* open(output_file, 'w') followed by f.write(text): the file afterwards
written_file(old, text) == <<text>>

main_write ==
    /\ pc = "write"
    /\ trace' = Append(trace, "write")
    /\ output_file' = written_file(output_file, content)
    /\ pc' = "done"
    /\ exit_status' = 0
    /\ UNCHANGED <<script, pdf_exists, pdf, i, all_text, raw_text, lines,
                   markdown_content, content, initial_file>>

Next ==
    \/ main_check_exists
    \/ extract_open
    \/ extract_page
    \/ extract_except
    \/ extract_return
    \/ main_check_blank
    \/ main_clean
    \/ format_begin
    \/ format_loop
    \/ format_return
    \/ main_fixes
    \/ main_create
    \/ main_write

Spec == Init /\ [][Next]_vars

(***************************************************************************)
(* The transformation stage on its own.  For script "final" the run starts *)
(* at the call format_as_proper_markdown(lines), for every list of at most *)
(* MaxLines lines drawn from SampleLines; for script "scripts" it starts   *)
(* at the call create_structured_markdown(raw_text), for the same lists    *)
(* joined into a text.                                                     *)
(***************************************************************************)
SampleLines ==
    { "",
      "ADR-015: Moneta Network Authentication and Identification",
      "Status: Proposed",
      "Date: 2025-06-01",
      "3. Decision",
      "7.Summary",
      "2.1. Authentication Flows",
      "1. Enable biometrics",
      "Pros:",
      "  Cons: cost ",
      "Narrative: user -> app",
      "Technical Notes:",
      "- item",
      "a. first",
      "sequenceDiagram",
      "2 participant App",
      "User->>App: login",
      "ADR-015 Moneta Network Authentication --> App",
      "Note over App: verify",
      "Plain paragraph text.",
      "Authentication: Design a secure OIDC-based flow for publisher groups." }

LineLists == SeqsUpTo(SampleLines, MaxLines)

InitFormat ==
    /\ script \in {"final", "scripts"}
    /\ pdf_exists = TRUE
    /\ pdf = [open_raises |-> FALSE, pages |-> <<>>]
    /\ output_file = <<>>
    /\ initial_file = <<>>
    /\ pc = (IF script = "final" THEN "format" ELSE "create")
    /\ i = 0
    /\ all_text = ""
    /\ \E ls \in LineLists :
         IF script = "final"
         THEN lines = ls /\ raw_text = ""
         ELSE lines = <<>> /\ raw_text = Join(ls, "\n")
    /\ markdown_content = <<>>
    /\ content = ""
    /\ exit_status = -1
    /\ trace = <<>>

NextFormat ==
    \/ format_begin
    \/ format_loop
    \/ format_return
    \/ main_fixes
    \/ main_create

SpecFormat == InitFormat /\ [][NextFormat]_vars

(***************************************************************************)
(* clean_and_structure_text on its own: the run starts at the call         *)
(* clean_and_structure_text(raw_text), for every text of at most           *)
(* MaxTextLen characters over TextAlphabet.                                *)
(***************************************************************************)
TextAlphabet == {"a", "7", " ", "\n"}

RECURSIVE TextsUpTo(_)
TextsUpTo(n) ==
    IF n = 0 THEN {""}
    ELSE LET P == TextsUpTo(n - 1)
         IN  P \cup {t \o c : t \in P, c \in TextAlphabet}

InitClean ==
    /\ script = "final"
    /\ pdf_exists = TRUE
    /\ pdf = [open_raises |-> FALSE, pages |-> <<>>]
    /\ output_file = <<>>
    /\ initial_file = <<>>
    /\ pc = "clean"
    /\ i = 0
    /\ all_text = ""
    /\ raw_text \in TextsUpTo(MaxTextLen)
    /\ lines = <<>>
    /\ markdown_content = <<>>
    /\ content = ""
    /\ exit_status = -1
    /\ trace = <<>>

NextClean == main_clean

SpecClean == InitClean /\ [][NextClean]_vars

(***************************************************************************)
(* Properties.                                                             *)
(***************************************************************************)
\* opening the PDF or extracting one of its pages raises
Raises ==
    pdf.open_raises \/ \E k \in 1..Len(pdf.pages) : pdf.pages[k].kind = "raise"

\* no page yields non-whitespace text
AllPagesBlank ==
    \A k \in 1..Len(pdf.pages) :
        pdf.pages[k].kind = "none" \/ Strip(pdf.pages[k].text) = ""

AfterBlankCheck == {"clean", "create", "format", "loop", "fixes", "write", "done"}

\* C1: in both scripts, when opening the PDF or extracting a page raises,
\* the extraction function returns "" (the text of earlier pages is dropped)
\* and main exits with status 1: it never gets past the blank check.
C1_ExtractionFailureExits ==
    (pdf_exists /\ Raises) =>
        /\ pc \in {"blank", "exit"} => raw_text = ""
        /\ pc \notin AfterBlankCheck
        /\ pc = "exit" => exit_status = 1
        /\ exit_status # 0

\* C1 witness: a page raised after earlier pages had produced text, and the
\* run has exited with status 1
C1_Witness ==
    /\ pdf_exists /\ Raises
    /\ Strip(all_text) # ""
    /\ raw_text = ""
    /\ pc = "exit"
    /\ exit_status = 1

\* C2: in both scripts, when extraction raises nothing and no page yields
\* non-whitespace text, main exits with status 1: it never gets past the
\* blank check.
C2_BlankPagesExit ==
    (pdf_exists /\ ~Raises /\ AllPagesBlank) =>
        /\ pc \notin AfterBlankCheck
        /\ exit_status # 0

\* number of occurrences of step in the trace
Count(step) == Cardinality({k \in 1..Len(trace) : trace[k] = step})

\* the steps a run takes before it writes, in order, for each script
Transformed ==
    IF script = "final"
    THEN /\ Count("clean") = 1 /\ Count("format") = 1 /\ Count("join") = 1
         /\ Count("fixes") = 1
         /\ trace[Len(trace) - 1] = "fixes"
    ELSE /\ Count("create") = 1
         /\ trace[Len(trace) - 1] = "create"

\* C3: a run that exits with status 1 (missing PDF, or blank text) leaves
\* the output file as it was; the output file is written once, as the last
\* step, after the existence check passed, extraction returned non-blank
\* text and every transformation stage finished; without the PDF no
\* extraction step is taken.
C3_FailedRunLeavesOutput ==
    /\ exit_status = 1 =>
          /\ output_file = initial_file
          /\ Count("write") = 0
          /\ ~pdf_exists \/ Strip(raw_text) = ""
    /\ output_file # initial_file => Count("write") = 1
    /\ Count("write") <= 1
    /\ Count("write") = 1 =>
          /\ trace[Len(trace)] = "write"
          /\ trace[1] = "exists" /\ pdf_exists
          /\ Count("blank") = 1 /\ Strip(raw_text) # ""
          /\ Transformed
    /\ ~pdf_exists =>
          Count("open") = 0 /\ Count("page") = 0 /\ Count("return") = 0
          /\ Count("except") = 0

\* C3 witness: a run on an existing PDF exited with status 1 and the output
\* file that existed before is still there
C3_Witness ==
    /\ exit_status = 1
    /\ pdf_exists
    /\ Len(initial_file) = 1
    /\ output_file = initial_file

\* the Markdown string the run produced
Produced ==
    IF script = "final"
    THEN manual_content_fixes(Join(markdown_content, "\n"))
    ELSE create_structured_markdown(raw_text)

\* C4: after the write step the output file holds exactly the Markdown
\* string the run produced, whatever it held before.
C4_WriteOverwrites ==
    pc = "done" => output_file = <<Produced>> /\ content = Produced

\* C4 witness: the run wrote over an output file that existed before
C4_Witness ==
    /\ pc = "done"
    /\ Len(initial_file) = 1
    /\ output_file # initial_file

\* the first line of s is l
BeginsWithLine(s, l) == s = l \/ StartsWith(s, l \o "\n")

\* C5: for every list of input lines, the empty list included, the output
\* of format_as_proper_markdown followed by manual_content_fixes is
\* non-empty and starts with the title line followed by an empty line; the
\* output of create_structured_markdown starts with the same title line.
C5_TitleFirst ==
    pc = "write" =>
        /\ Len(content) > 0
        /\ BeginsWithLine(content, Title)
        /\ script = "final" =>
              /\ StartsWith(content, Title \o "\n")
              /\ BeginsWithLine(Drop(content, Len(Title) + 1), "")

\* C5 witness: the formatter ran on a non-empty list and the manual fixes
\* changed its output
C5_Witness ==
    /\ pc = "write"
    /\ script = "final"
    /\ Len(lines) >= 1
    /\ content # Join(markdown_content, "\n")

\* the iteration of the while loop that is about to run reads a line of
\* class P (a predicate on the stripped line)
AtLine(P(_)) == pc = "loop" /\ i <= Len(lines) /\ P(Strip(lines[i]))

\* C6: an iteration that reads a line of the form 'x.y. Title' appends the
\* heading '### x.y. Title' and an empty line.
C6_SubSectionHeading ==
    [][AtLine(IsSubSection) =>
         markdown_content' =
             markdown_content \o <<SubSectionHeading(Strip(lines[i])), "">>]_vars

\* digits, a period, at least one whitespace character, then text
NumberedItemWithText(line) ==
    LET n == Span(line, Digits)
        w == Span(Drop(line, n + 1), Whitespace)
    IN  n >= 1 /\ Ch(line, n + 1) = "." /\ w >= 1 /\ Len(line) > n + 1 + w

\* C7: an iteration that reads a numbered list item appends the line as it
\* is, with no heading marker and no empty line after it.
C7_NumberedItemVerbatim ==
    [][AtLine(NumberedItemWithText) =>
         markdown_content' = markdown_content \o <<Strip(lines[i])>>]_vars

\* C8: when format_as_proper_markdown has finished, the only output line
\* that contains both 'ADR-015' and 'Moneta Network Authentication' is the
\* fixed title on the first line.
C8_TitleRepetitionsSkipped ==
    pc = "fixes" =>
        \A m \in 2..Len(markdown_content) : ~IsTitleRepetition(markdown_content[m])

\* C9: when format_as_proper_markdown has finished, every input line that
\* starts with a header keyword appears in the output as '### ' followed by
\* the line, with an empty line after it.
C9_KeywordHeading ==
    pc = "fixes" =>
        \A k \in 1..Len(lines) :
            StartsWithKeyword(lines[k]) =>
                \E m \in 1..(Len(markdown_content) - 1) :
                    /\ markdown_content[m] = "### " \o lines[k]
                    /\ markdown_content[m + 1] = ""

\* every character of l is a digit, and there is one
AllDigits(l) == Len(l) >= 1 /\ \A k \in 1..Len(l) : Ch(l, k) \in Digits

\* the stripped lines of text, in order, without the empty and the
\* all-digit ones
RECURSIVE Remaining(_)
Remaining(ls) ==
    IF Len(ls) = 0 THEN <<>>
    ELSE (IF Strip(ls[1]) = "" \/ AllDigits(Strip(ls[1])) THEN <<>> ELSE <<Strip(ls[1])>>)
         \o Remaining(Tail(ls))

\* C10: the list clean_and_structure_text returns has no empty line, no
\* line with leading or trailing whitespace and no all-digit line, and is
\* exactly the remaining stripped lines of the text in their order.
C10_CleanLines ==
    pc = "format" =>
        /\ \A k \in 1..Len(lines) :
              /\ lines[k] # ""
              /\ ~IsSpace(Ch(lines[k], 1))
              /\ ~IsSpace(Ch(lines[k], Len(lines[k])))
              /\ ~AllDigits(lines[k])
        /\ lines = Remaining(Split(raw_text, "\n"))

\* C10 witness: the text had a page-number line and a line with
\* surrounding whitespace; the first is gone and the second is stripped
C10_Witness ==
    /\ pc = "format"
    /\ Len(lines) >= 1
    /\ \E l \in {Split(raw_text, "\n")[k] : k \in 1..Len(Split(raw_text, "\n"))} :
          AllDigits(Strip(l))
    /\ \E l \in {Split(raw_text, "\n")[k] : k \in 1..Len(Split(raw_text, "\n"))} :
          Strip(l) # l /\ Strip(l) # "" /\ ~AllDigits(Strip(l))

\* the text of the pages ps in order, each non-empty one followed by sep
RECURSIVE PagesText(_, _)
PagesText(ps, sep) ==
    IF Len(ps) = 0 THEN ""
    ELSE PagesText(SubSeq(ps, 1, Len(ps) - 1), sep)
         \o (IF ps[Len(ps)].kind = "none" \/ ps[Len(ps)].text = "" THEN ""
             ELSE ps[Len(ps)].text \o sep)

\* the separator each script is said to use
ClaimedSeparator ==
    IF script = "final" THEN "\n\n" ELSE "\n\n--- PAGE BREAK ---\n\n"

\* C11: when nothing raises, the text the extraction function returns is
\* the concatenation, in page order, of every page's text followed by the
\* script's separator; a page whose text is None or empty adds nothing,
\* not even a separator.
C11_ExtractedText ==
    (pdf_exists /\ ~Raises /\ pc \notin {"start", "open", "page"}) =>
        raw_text = PagesText(pdf.pages, ClaimedSeparator)

\* C11 witness: extraction returned the text of a PDF with a None or empty
\* page and a page with text
C11_Witness ==
    /\ pc = "blank"
    /\ pdf_exists /\ ~Raises
    /\ Len(pdf.pages) = 2
    /\ pdf.pages[1].kind = "none" \/ pdf.pages[1].text = ""
    /\ pdf.pages[2].kind = "text" /\ pdf.pages[2].text # ""
    /\ raw_text = pdf.pages[2].text \o ClaimedSeparator

\* extracted texts to compare a run with: one of each script's separators
\* after some page text
ReferenceTexts == {"x\n\n--- PAGE BREAK ---\n\n", "1. Context\n\n"}

\* C12: what scripts/pdf_converter.py produces and writes does not depend
\* on the extracted text: it is the document create_structured_markdown
\* returns for any other text.
C12_OutputIndependentOfPdf ==
    script = "scripts" =>
        /\ pc \in {"write", "done"} =>
              \A t \in ReferenceTexts : content = create_structured_markdown(t)
        /\ pc = "done" =>
              \A t \in ReferenceTexts : output_file = <<create_structured_markdown(t)>>

\* C12 witness: scripts/pdf_converter.py wrote its document for a PDF with
\* two different non-blank pages, neither text being a reference text
C12_Witness ==
    /\ script = "scripts"
    /\ pc = "done"
    /\ Len(pdf.pages) = 2
    /\ Strip(pdf.pages[1].text) # "" /\ Strip(pdf.pages[2].text) # ""
    /\ pdf.pages[1].text # pdf.pages[2].text
    /\ raw_text \notin ReferenceTexts
    /\ Len(output_file) = 1

====
